---- MODULE Spec2Model ----
(***************************************************************************)
(* Model of two React components of the sentry frontend:                   *)
(*   - withRepositories (higher-order component over RepositoryStore)      *)
(*   - GroupLocations   (view fetching the user.location tag of a group)   *)
(* JavaScript runs on a single-threaded event loop: every action below is  *)
(* one event-loop task (a lifecycle callback, a queued store action or a   *)
(* response callback) run to completion.                                   *)
(***************************************************************************)
EXTENDS Integers, Sequences, FiniteSets, TLC

\* ---- bounds ----
NumInstances == 3
MaxTopValues == 2
MaxCount == 2

\* ---- value universes ----
Instances == 1..NumInstances
OrgSlugs == {"org1", "org2"}
ReposData == {"reposA", "reposB"}
GroupIds == {"g1", "g2"}
TagValues == {"US", "FR", "ZZ"}
Counts == (1..MaxCount) \cup {5}

\* JavaScript values of the decorator side are modelled as strings
Undefined == "undefined"
JsTrue == "true"
JsFalse == "false"
ErrorValue == "err"
\* JavaScript null / undefined on the GroupLocations side
Null == [isNull |-> TRUE]
UndefinedCoords == <<>>

VARIABLES
  store,        \* RepositoryStore.state
  inst,         \* withRepositories instances: life, props.orgSlug, this.state
  fetchCalls,   \* history of getRepositories(api, {orgSlug}) calls
  pending,      \* per fetch call: "queued" | "sent" | "done"
  triggerCount, \* number of store update notifications emitted
  glLife,       \* GroupLocations: "constructed" | "mounted" | "unmounted"
  glProps,      \* GroupLocations this.props.params
  glState,      \* GroupLocations this.state
  glRequests,   \* urls passed to this.api.request
  glPending,    \* indices of glRequests whose callback has not run
  glCallbackLog, \* response callbacks that have run on the mounted component
  glLateSetState, \* setState calls made by callbacks after unmount
  glView        \* result of the last render()

repoVars == <<store, inst, fetchCalls, pending, triggerCount>>
glVars == <<glLife, glProps, glState, glRequests, glPending, glCallbackLog,
           glLateSetState, glView>>
vars == <<store, inst, fetchCalls, pending, triggerCount,
          glLife, glProps, glState, glRequests, glPending, glCallbackLog,
          glLateSetState, glView>>

(***************************************************************************)
(* RepositoryStore                                                         *)
(***************************************************************************)
Fields == {"repositories", "repositoriesLoading", "repositoriesError"}

EmptyEntry == [f \in {} |-> Undefined]

\* property read: an absent property reads as undefined
Field(obj, f) == IF f \in DOMAIN obj THEN obj[f] ELSE Undefined

Truthy(v) == v \notin {Undefined, JsFalse}

\* object spread {...base, ...over}
Spread(base, over) ==
  [f \in (DOMAIN base) \cup (DOMAIN over) |->
     IF f \in DOMAIN over THEN over[f] ELSE base[f]]

StoreInit ==
  [orgSlug |-> Undefined, repositories |-> Undefined,
   repositoriesLoading |-> Undefined, repositoriesError |-> Undefined]

\* RepositoryStore.get(orgSlug): the entry of the store for that key
get(st, orgSlug) ==
  IF st.orgSlug = orgSlug THEN [f \in Fields |-> st[f]] ELSE EmptyEntry

\* store handler of the queued loadRepositories action
loadRepositories(st, orgSlug) ==
  [st EXCEPT !.repositoriesLoading = JsTrue, !.orgSlug = orgSlug]

\* store handlers of the asynchronous response
loadRepositoriesSuccess(st, data) ==
  [st EXCEPT !.repositories = data, !.repositoriesLoading = JsFalse,
             !.repositoriesError = Undefined]

loadRepositoriesError(st, err) ==
  [st EXCEPT !.repositoriesLoading = JsFalse, !.repositoriesError = err]

(***************************************************************************)
(* withRepositories                                                        *)
(***************************************************************************)
NoInstance ==
  [life |-> "none", orgSlug |-> Undefined,
   state |-> [f \in Fields |-> Undefined]]

\* getInitialState spreading the defaults over the entry
getInitialState_defaultsLast(st, orgSlug) ==
  Spread(get(st, orgSlug),
         [repositories |-> Undefined, repositoriesLoading |-> Undefined,
          repositoriesError |-> Undefined])

getInitialState(st, orgSlug) ==
  Spread([repositories |-> Undefined, repositoriesLoading |-> Undefined,
          repositoriesError |-> Undefined],
         get(st, orgSlug))

\* fetchRepos testing the loading flag only
ShouldFetch_noData(st, orgSlug) ==
  ~Truthy(Field(get(st, orgSlug), "repositoriesLoading"))

\* the condition of fetchRepos
ShouldFetch(st, orgSlug) ==
  /\ ~Truthy(Field(get(st, orgSlug), "repositories"))
  /\ ~Truthy(Field(get(st, orgSlug), "repositoriesLoading"))

\* fetchRepos marking the flag without the key
MarkLoading_noSlug(st, orgSlug) ==
  [st EXCEPT !.repositoriesLoading = JsTrue]

\* fetchRepos keeping the key of an earlier mark
MarkLoading_keepSlug(st, orgSlug) ==
  [st EXCEPT !.repositoriesLoading = JsTrue,
             !.orgSlug = IF @ = Undefined THEN orgSlug ELSE @]

\* the two direct writes to RepositoryStore.state in fetchRepos
MarkLoading(st, orgSlug) ==
  [st EXCEPT !.repositoriesLoading = JsTrue, !.orgSlug = orgSlug]

\* onStoreUpdate merging the store state without reading its own key
onStoreUpdate_anyKey(state, orgSlug, st) ==
  Spread(state, [f \in Fields |-> st[f]])

\* this.setState({...RepositoryStore.get(orgSlug)})
onStoreUpdate(state, orgSlug, st) == Spread(state, get(st, orgSlug))

\* store.trigger: every subscribed (mounted) instance runs onStoreUpdate
Trigger(st) ==
  [i \in Instances |->
     IF inst[i].life = "mounted"
     THEN [inst[i] EXCEPT !.state = onStoreUpdate(@, inst[i].orgSlug, st)]
     ELSE inst[i]]

\* an element is created: getInitialState runs with its props
\* (instances are numbered in the order of their creation)
Construct(i, k) ==
  /\ inst[i].life = "none"
  /\ \A j \in 1..(i - 1) : inst[j].life # "none"
  /\ inst' = [inst EXCEPT ![i] =
       [life |-> "constructed", orgSlug |-> k,
        state |-> getInitialState(store, k)]]
  /\ UNCHANGED <<store, fetchCalls, pending, triggerCount>>
  /\ UNCHANGED glVars

\* a fetchRepos that also calls setState({repositoriesLoading: true})
mountInstance_showLoading(r) ==
  [r EXCEPT !.life = "mounted", !.state.repositoriesLoading = JsTrue]

\* what componentDidMount / fetchRepos do to the instance itself: it becomes
\* mounted; this.state is not written
mountInstance(r) == [r EXCEPT !.life = "mounted"]

\* componentDidMount -> fetchRepos (the mixin subscribes to the store)
ComponentDidMount(i) ==
  /\ inst[i].life = "constructed"
  /\ inst' = [inst EXCEPT ![i] = mountInstance(@)]
  /\ IF ShouldFetch(store, inst[i].orgSlug)
     THEN /\ store' = MarkLoading(store, inst[i].orgSlug)
          /\ fetchCalls' = Append(fetchCalls, inst[i].orgSlug)
          /\ pending' = Append(pending, "queued")
     ELSE UNCHANGED <<store, fetchCalls, pending>>
  /\ UNCHANGED triggerCount
  /\ UNCHANGED glVars

\* the instance is removed: the mixin stops listening to the store and the
\* instance with its props and state is discarded; the request started by
\* getRepositories is left to complete
Unmount(i) ==
  /\ inst[i].life = "mounted"
  /\ inst' = [inst EXCEPT ![i] = [NoInstance EXCEPT !.life = "unmounted"]]
  /\ UNCHANGED <<store, fetchCalls, pending, triggerCount>>
  /\ UNCHANGED glVars

\* the action queued by getRepositories reaches the store
StoreLoadRepositories(n) ==
  /\ n \in DOMAIN pending
  /\ pending[n] = "queued"
  /\ \A m \in 1..(n - 1) : pending[m] # "queued"
  /\ store' = loadRepositories(store, fetchCalls[n])
  /\ inst' = Trigger(store')
  /\ pending' = [pending EXCEPT ![n] = "sent"]
  /\ triggerCount' = triggerCount + 1
  /\ UNCHANGED fetchCalls
  /\ UNCHANGED glVars

ResponseSuccess(n, data) ==
  /\ n \in DOMAIN pending
  /\ pending[n] = "sent"
  /\ store' = loadRepositoriesSuccess(store, data)
  /\ inst' = Trigger(store')
  /\ pending' = [pending EXCEPT ![n] = "done"]
  /\ triggerCount' = triggerCount + 1
  /\ UNCHANGED fetchCalls
  /\ UNCHANGED glVars

ResponseError(n) ==
  /\ n \in DOMAIN pending
  /\ pending[n] = "sent"
  /\ store' = loadRepositoriesError(store, ErrorValue)
  /\ inst' = Trigger(store')
  /\ pending' = [pending EXCEPT ![n] = "done"]
  /\ triggerCount' = triggerCount + 1
  /\ UNCHANGED fetchCalls
  /\ UNCHANGED glVars

(***************************************************************************)
(* GroupLocations                                                          *)
(***************************************************************************)
Tags == [value : TagValues, count : Counts]

RECURSIVE SeqsUpTo(_, _)
SeqsUpTo(S, n) ==
  IF n = 0 THEN {<<>>}
  ELSE LET shorter == SeqsUpTo(S, n - 1)
       IN shorter \cup {Append(s, x) : s \in {t \in shorter : Len(t) = n - 1}, x \in S}

Responses == [topValues : SeqsUpTo(Tags, MaxTopValues)]

\* utils/countryCodes: code -> [lat, lng]; a code not in the table reads undefined
CountryTable == [US |-> <<37, -95>>, FR |-> <<46, 2>>]

countryCodes(code) ==
  IF code \in DOMAIN CountryTable THEN CountryTable[code] ELSE UndefinedCoords

glInitialState == [loading |-> TRUE, error |-> FALSE, data |-> Null]

fetchDataUrl_wrongTag(params) == <<"/issues/", params.groupId, "/tags/user/">>

fetchDataUrl(params) == <<"/issues/", params.groupId, "/tags/user.location/">>

\* fetchData clearing the loading flag before the request
fetchDataSetState_notLoading(s) == [s EXCEPT !.loading = FALSE, !.error = FALSE]

\* setState at the start of fetchData
fetchDataSetState(s) == [s EXCEPT !.loading = TRUE, !.error = FALSE]

\* success callback that drops the response
successSetState_noData(s, data) ==
  [s EXCEPT !.error = FALSE, !.loading = FALSE]

\* setState of the success callback
successSetState(s, data) ==
  [s EXCEPT !.data = data, !.error = FALSE, !.loading = FALSE]

\* error callback that clears the data / leaves the spinner on
errorSetState_keepLoading(s) == [s EXCEPT !.error = TRUE]

errorSetState_flagOnly(s) == [s EXCEPT !.loading = FALSE]

\* setState of the error callback
errorSetState(s) == [s EXCEPT !.error = TRUE, !.loading = FALSE]

\* a map that builds the series back to front
RECURSIVE MapSeries_reversed(_)
MapSeries_reversed(topValues) ==
  IF topValues = <<>> THEN <<>>
  ELSE MapSeries_reversed(Tail(topValues))
       \o <<(<<countryCodes(Head(topValues).value), Head(topValues).count>>)>>

\* Array.prototype.map of tag => [countryCodes[tag.value], tag.count]
RECURSIVE MapSeries(_)
MapSeries(topValues) ==
  IF topValues = <<>> THEN <<>>
  ELSE <<(<<countryCodes(Head(topValues).value), Head(topValues).count>>)>>
       \o MapSeries(Tail(topValues))

render(s) ==
  IF s.loading THEN [kind |-> "LoadingIndicator", series |-> <<>>]
  ELSE IF s.error THEN [kind |-> "LoadingError", series |-> <<>>]
  ELSE IF s.data = Null THEN [kind |-> "TypeError", series |-> <<>>]
  ELSE [kind |-> "GeoMap", series |-> MapSeries(s.data.topValues)]

NotRendered == [kind |-> "none", series |-> <<>>]

\* componentWillMount -> fetchData
ComponentWillMount ==
  /\ glLife = "constructed"
  /\ glLife' = "mounted"
  /\ glState' = fetchDataSetState(glState)
  /\ glRequests' = Append(glRequests, fetchDataUrl(glProps))
  /\ glPending' = glPending \cup {Len(glRequests) + 1}
  /\ UNCHANGED <<glProps, glCallbackLog, glLateSetState, glView>>
  /\ UNCHANGED repoVars

\* an unmount that aborts the request in flight
GLUnmount_abort ==
  /\ glLife = "mounted"
  /\ glLife' = "unmounted"
  /\ glPending' = {}
  /\ UNCHANGED <<glProps, glState, glRequests, glCallbackLog, glLateSetState, glView>>
  /\ UNCHANGED repoVars

\* the component is removed; it has no componentWillUnmount, so the request
\* passed to this.api.request keeps its callbacks
GLUnmount ==
  /\ glLife = "mounted"
  /\ glLife' = "unmounted"
  /\ UNCHANGED <<glProps, glState, glRequests, glPending, glCallbackLog,
                 glLateSetState, glView>>
  /\ UNCHANGED repoVars

RequestSuccess(n, data) ==
  /\ n \in glPending
  /\ glPending' = glPending \ {n}
  /\ IF glLife = "mounted"
     THEN /\ glState' = successSetState(glState, data)
          /\ glCallbackLog' = Append(glCallbackLog, [kind |-> "success", data |-> data])
          /\ UNCHANGED glLateSetState
     ELSE \* setState on a component that is no longer mounted is not applied
          /\ glLateSetState' = Append(glLateSetState, "success")
          /\ UNCHANGED <<glState, glCallbackLog>>
  /\ UNCHANGED <<glLife, glProps, glRequests, glView>>
  /\ UNCHANGED repoVars

RequestError(n) ==
  /\ n \in glPending
  /\ glPending' = glPending \ {n}
  /\ IF glLife = "mounted"
     THEN /\ glState' = errorSetState(glState)
          /\ glCallbackLog' = Append(glCallbackLog, [kind |-> "error", data |-> Null])
          /\ UNCHANGED glLateSetState
     ELSE \* setState on a component that is no longer mounted is not applied
          /\ glLateSetState' = Append(glLateSetState, "error")
          /\ UNCHANGED <<glState, glCallbackLog>>
  /\ UNCHANGED <<glLife, glProps, glRequests, glView>>
  /\ UNCHANGED repoVars

Render ==
  /\ glLife = "mounted"
  /\ glView' = render(glState)
  /\ UNCHANGED <<glLife, glProps, glState, glRequests, glPending, glCallbackLog,
                 glLateSetState>>
  /\ UNCHANGED repoVars

(***************************************************************************)
(* Specifications                                                          *)
(***************************************************************************)
RepoInit ==
  /\ store = StoreInit
  /\ inst = [i \in Instances |-> NoInstance]
  /\ fetchCalls = <<>>
  /\ pending = <<>>
  /\ triggerCount = 0

GLInit ==
  /\ glLife = "constructed"
  /\ glProps \in [groupId : GroupIds]
  /\ glState = glInitialState
  /\ glRequests = <<>>
  /\ glPending = {}
  /\ glCallbackLog = <<>>
  /\ glLateSetState = <<>>
  /\ glView = NotRendered

Init == RepoInit /\ GLInit

Next ==
  \/ \E i \in Instances, k \in OrgSlugs : Construct(i, k)
  \/ \E i \in Instances : ComponentDidMount(i)
  \/ \E i \in Instances : Unmount(i)
  \/ \E n \in DOMAIN pending : StoreLoadRepositories(n)
  \/ \E n \in DOMAIN pending, data \in ReposData : ResponseSuccess(n, data)
  \/ \E n \in DOMAIN pending : ResponseError(n)

Spec == Init /\ [][Next]_vars

NextGL ==
  \/ ComponentWillMount
  \/ \E n \in DOMAIN glRequests, data \in Responses : RequestSuccess(n, data)
  \/ \E n \in DOMAIN glRequests : RequestError(n)
  \/ Render
  \/ GLUnmount

SpecGL == Init /\ [][NextGL]_vars

(***************************************************************************)
(* Properties                                                              *)
(***************************************************************************)
Last(s) == s[Len(s)]

Mounted == {i \in Instances : inst[i].life = "mounted"}

\* fetch calls for key k whose response has not resolved yet
Outstanding(k) == {n \in DOMAIN pending : fetchCalls[n] = k /\ pending[n] # "done"}

\* C1: for every key, at most one getRepositories call is issued before the
\* response of the first one resolves, whatever mounts happen in between.
C1_OneFetchPerKey == \A k \in OrgSlugs : Cardinality(Outstanding(k)) <= 1

C3_ErrorState ==
  (glCallbackLog # <<>> /\ Last(glCallbackLog).kind = "error") =>
    glState = [loading |-> FALSE, error |-> TRUE, data |-> Null]

C3_Witness ==
  /\ glCallbackLog # <<>>
  /\ Last(glCallbackLog).kind = "error"
  /\ glView.kind = "LoadingError"

\* C4: the state of GroupLocations only ever changes from the initial
\* loading state to an error or a loaded state; once loading is false no
\* step changes loading, error or data.
C4_NoFurtherTransitions ==
  [][/\ (~glState.loading) => glState' = glState
     /\ glState' # glState =>
          /\ glState = glInitialState
          /\ ~glState'.loading
          /\ glState'.error \/ glState'.data # Null]_vars

C4_Witness ==
  /\ ~glState.loading
  /\ glPending = {}
  /\ glView.kind \in {"LoadingError", "GeoMap"}

\* C5: a GroupLocations instance has issued no request before mount and,
\* from mount on, exactly one: the GET of the user.location tag of its own
\* group; no callback adds another.
C5_OneRequest ==
  /\ glLife = "constructed" => glRequests = <<>>
  /\ glLife = "mounted" =>
       glRequests = << <<"/issues/", glProps.groupId, "/tags/user.location/">> >>

C5_Witness ==
  /\ glLife = "mounted"
  /\ Len(glCallbackLog) = 1
  /\ Len(glRequests) = 1

\* C6: a render that happened while no response callback has run produced
\* the loading indicator.
C6_InitialRenderLoading ==
  (glCallbackLog = <<>> /\ glView # NotRendered) =>
    glView.kind = "LoadingIndicator"

C6_Witness ==
  /\ glCallbackLog = <<>>
  /\ glPending # {}
  /\ glView.kind = "LoadingIndicator"

\* C7: a mount issues a fetch for its key exactly when the store's entry for
\* that key holds neither data nor a true loading flag; otherwise the mount
\* issues no fetch and leaves the store as it is.
C7_FetchIff ==
  [][\A i \in Instances :
       (inst[i].life = "constructed" /\ inst'[i].life = "mounted") =>
         LET k == inst[i].orgSlug
             hasData == store.orgSlug = k /\ store.repositories \in ReposData
             isLoading == store.orgSlug = k /\ store.repositoriesLoading = JsTrue
         IN IF ~hasData /\ ~isLoading
            THEN fetchCalls' = Append(fetchCalls, k)
            ELSE fetchCalls' = fetchCalls /\ store' = store /\ pending' = pending]_vars

C7_Witness ==
  /\ Len(fetchCalls) > 0
  /\ Cardinality(Mounted) > Len(fetchCalls)
  /\ \E i \in Mounted : inst[i].orgSlug = store.orgSlug /\ store.repositories \in ReposData

\* C8: in the step that dispatches getRepositories for key K the store is
\* already marked repositoriesLoading = true with orgSlug = K, so a mount
\* for K that runs next sees the entry loading and does not fetch.
C8_MarkedAtDispatch ==
  [][fetchCalls' # fetchCalls =>
       /\ store'.repositoriesLoading = JsTrue
       /\ store'.orgSlug = Last(fetchCalls')
       /\ ~ShouldFetch(store', Last(fetchCalls'))]_vars

C8_Witness ==
  /\ Len(fetchCalls) = 1
  /\ pending[1] = "queued"
  /\ Cardinality({i \in Mounted : inst[i].orgSlug = fetchCalls[1]}) >= 2

\* C9: the series of a rendered map has the length and order of topValues
\* and its i-th element is [countryCodes[topValues[i].value], topValues[i].count].
C9_Series ==
  glView.kind = "GeoMap" =>
    LET tv == glState.data.topValues
    IN /\ Len(glView.series) = Len(tv)
       /\ \A i \in 1..Len(tv) :
            glView.series[i] = <<countryCodes(tv[i].value), tv[i].count>>

C9_Witness ==
  /\ glState.data = [topValues |-> <<[value |-> "US", count |-> 5],
                                     [value |-> "FR", count |-> 2]>>]
  /\ glView = [kind |-> "GeoMap",
               series |-> << <<CountryTable["US"], 5>>, <<CountryTable["FR"], 2>> >>]

\* C10: after the success callback the state of GroupLocations is exactly
\* {data: the response, error: false, loading: false}.
C10_SuccessState ==
  (glCallbackLog # <<>> /\ Last(glCallbackLog).kind = "success") =>
    glState = [loading |-> FALSE, error |-> FALSE,
               data |-> Last(glCallbackLog).data]

C10_Witness ==
  /\ glCallbackLog # <<>>
  /\ Last(glCallbackLog).kind = "success"
  /\ glState.data \in Responses
  /\ Len(glState.data.topValues) = MaxTopValues

\* C11: the displayed state of a newly created instance is the store's entry
\* for its orgSlug at that moment: every field the entry has is copied, and
\* all three fields are undefined when the entry is empty.
C11_InitialState ==
  [][\A i \in Instances :
       (inst[i].life = "none" /\ inst'[i].life = "constructed") =>
         IF store.orgSlug = inst'[i].orgSlug
         THEN inst'[i].state =
                [repositories |-> store.repositories,
                 repositoriesLoading |-> store.repositoriesLoading,
                 repositoriesError |-> store.repositoriesError]
         ELSE inst'[i].state =
                [repositories |-> Undefined,
                 repositoriesLoading |-> Undefined,
                 repositoriesError |-> Undefined]]_vars

C11_Witness ==
  \E i, j \in Instances :
    /\ inst[i].life = "constructed"
    /\ inst[i].orgSlug = store.orgSlug
    /\ inst[i].state.repositories \in ReposData
    /\ inst[i].state.repositoriesLoading = JsFalse
    /\ inst[j].life = "constructed"
    /\ inst[j].orgSlug # store.orgSlug
    /\ inst[j].state.repositories = Undefined

C13_DataWhenLoaded ==
  /\ (~glState.loading /\ ~glState.error) =>
       /\ glState.data # Null
       /\ glCallbackLog # <<>>
       /\ Last(glCallbackLog).kind = "success"
       /\ glState.data = Last(glCallbackLog).data
  /\ glView.kind # "TypeError"
  /\ glView.kind = "GeoMap" =>
       \E n \in DOMAIN glCallbackLog : glCallbackLog[n].kind = "success"

C13_Witness ==
  /\ ~glState.loading
  /\ ~glState.error
  /\ glState.data \in Responses
  /\ glView.kind = "GeoMap"

\* C14: the mark made by fetchRepos is written to the store only: the mount
\* that triggers the fetch changes no instance's displayed state while the
\* store says loading, and a displayed state changes only in a step that
\* delivers a store update notification.
C14_MarkNotDisplayed ==
  [][/\ \A i \in Instances :
          (inst[i].life = "constructed" /\ inst'[i].life = "mounted"
             /\ fetchCalls' # fetchCalls) =>
            /\ store'.repositoriesLoading = JsTrue
            /\ store'.orgSlug = inst[i].orgSlug
            /\ \A j \in Instances : inst'[j].state = inst[j].state
     /\ triggerCount' = triggerCount =>
          \A i \in Instances :
            (inst[i].life \in {"constructed", "mounted"}
               /\ inst'[i].life \in {"constructed", "mounted"}) =>
              inst'[i].state = inst[i].state]_vars

C14_Witness ==
  \E i \in Mounted :
    /\ fetchCalls = <<inst[i].orgSlug>>
    /\ triggerCount = 0
    /\ store.orgSlug = inst[i].orgSlug
    /\ store.repositoriesLoading = JsTrue
    /\ inst[i].state.repositoriesLoading = Undefined

\* keys whose entry the store reports as loading
LoadingKeys ==
  {k \in OrgSlugs : store.orgSlug = k /\ store.repositoriesLoading = JsTrue}

\* C15: the mark is one slot for the whole store: the step in which
\* fetchRepos triggers for key K leaves the store with repositoriesLoading =
\* true and orgSlug = K whatever key was marked before, and never more than
\* one key, the one triggered last, is recorded as loading by the mark.
C15_SingleSlot ==
  [][\A i \in Instances :
       (inst[i].life = "constructed" /\ inst'[i].life = "mounted"
          /\ fetchCalls' # fetchCalls) =>
         /\ store'.repositoriesLoading = JsTrue
         /\ store'.orgSlug = inst[i].orgSlug
         /\ \A k \in OrgSlugs \ {inst[i].orgSlug} :
              ~Truthy(Field(get(store', k), "repositoriesLoading"))
         /\ Cardinality({k \in OrgSlugs :
              Truthy(Field(get(store', k), "repositoriesLoading"))}) = 1]_vars

C15_Witness ==
  /\ Len(fetchCalls) = 2
  /\ fetchCalls[1] # fetchCalls[2]
  /\ pending = <<"queued", "queued">>
  /\ store.orgSlug = fetchCalls[2]
  /\ LoadingKeys = {fetchCalls[2]}

====
